---- MODULE Spec2Model ----
(***************************************************************************)
(* Model of the Dulien orchestrator: one orchestration cycle               *)
(* (DulienOrchestrator.run_cycle: scan -> decide -> execute) and the       *)
(* executor workers (ClaudeAgent.execute_task) it starts.                  *)
(*                                                                         *)
(* Text (titles, bodies) is a sequence of one-character strings, so that   *)
(* Python's substring test `ref in body` is computed, not assumed.         *)
(***************************************************************************)
EXTENDS Integers, Sequences, FiniteSets, Bags, TLC

VARIABLES
    store,                 \* the GitHub issues and PRs, in gh's listing order
    max_parallel_actions,  \* ORCHESTRATOR_CONFIG["max_parallel_actions"]
    ollama,                \* self.ollama is set (the oracle is available)
    pc,                    \* position of the control thread in run_cycle
    state,                 \* github_state, the Snapshot of the cycle
    response,              \* what self.ollama.generate answered in this cycle
    strategy,              \* which path of _decide_actions produced `actions`
    current_run_actions,   \* self.current_run_actions, the Dedup Tracker
    actions,               \* the list _decide_actions returned
    threads,               \* the workers started by _execute_actions
    joined,                \* how many threads the control thread has joined
    results,               \* the shared list `results` of _execute_actions
    cycle_status,          \* "status" of the summary run_cycle returned
    loop,                  \* main / run_continuous around run_cycle
    scan,                  \* the reads of _scan_github_state made so far
    orphans                \* live workers of earlier cycles (a bag)

vars == <<store, max_parallel_actions, ollama, pc, state, response, strategy,
          current_run_actions, actions, threads, joined, results, cycle_status,
          loop, scan, orphans>>

----------------------------------------------------------------------------
(* Bounds of the model *)

\* longest store (issues and PRs together) of the decision-engine runs
MaxStoreItems == 3
\* longest store of the runs that also execute the actions
MaxCycleItems == 2
\* most workers of earlier cycles still alive when a cycle of the loop begins
MaxOrphans == 1
\* the concurrency budget K of the runs of the loop
MaxLoopBudget == 1
\* longest action list the oracle proposes
MaxProposals == 2
\* largest concurrency budget K tried by the decision-engine runs
MaxBudget == 3

(* Program constants *)

MaxParallelActions == 3
RetryAttempts == 2
IgnoreOldTasksBeforeNumber == 50
\* ORCHESTRATOR_CONFIG["action_timeout"] and the timeout of _monitor_task
ActionTimeout == 600
MonitorTimeout == 120
\* ORCHESTRATOR_CONFIG["loop_interval"]
LoopInterval == 600
\* GitHubClient.repos (the first two of the four repositories, in order)
Repos == <<"webapp", "infrastructure">>

----------------------------------------------------------------------------
(* Text *)

Digit(d) ==
    CASE d = 0 -> "0" [] d = 1 -> "1" [] d = 2 -> "2" [] d = 3 -> "3"
      [] d = 4 -> "4" [] d = 5 -> "5" [] d = 6 -> "6" [] d = 7 -> "7"
      [] d = 8 -> "8" [] d = 9 -> "9"

RECURSIVE Str(_)
\* str(n) / f"{n}" of a non-negative integer
Str(n) == IF n < 10 THEN <<Digit(n)>> ELSE Str(n \div 10) \o <<Digit(n % 10)>>

\* Python's `sub in text`
Contains(sub, text) ==
    \E i \in 1..(Len(text) - Len(sub) + 1) : SubSeq(text, i, i + Len(sub) - 1) = sub

\* Python's s[:n]
Slice(s, n) ==
    IF n >= 0
    THEN SubSeq(s, 1, IF n < Len(s) THEN n ELSE Len(s))
    ELSE SubSeq(s, 1, IF Len(s) + n > 0 THEN Len(s) + n ELSE 0)

----------------------------------------------------------------------------
(* The item store: what gh lists *)

AgentLabels == {"agent:webapp", "agent:infrastructure", "agent:tech-lead"}

PullRequest(repo, number, title) ==
    [kind |-> "pr", repo |-> repo, number |-> number, title |-> title,
     body |-> <<>>, labels |-> {}]

Issue(repo, number, title, body, labels) ==
    [kind |-> "issue", repo |-> repo, number |-> number, title |-> title,
     body |-> body, labels |-> labels]

\* The issues and PRs a store is drawn from: one open PR; an open task of
\* webapp whose body refers to "#60"; an open task of infrastructure; a task
\* below the floor; a task of infrastructure, being processed, whose body
\* holds the same reference; the epic infrastructure#60, which also carries
\* the tech lead's agent label
ItemPool ==
    { PullRequest("webapp", 12, <<"f", "i", "x">>),
      Issue("webapp", 55, <<"u", "i">>, <<"#", "6", "0">>, {"agent:webapp"}),
      Issue("infrastructure", 56, <<"d", "n", "s">>, <<>>,
            {"agent:infrastructure"}),
      Issue("webapp", 3, <<"o", "l", "d">>, <<>>, {"agent:webapp"}),
      Issue("infrastructure", 57, <<"v", "m">>, <<"#", "6", "0">>,
            {"agent:infrastructure", "processing"}),
      Issue("infrastructure", 60, <<"e", "p">>, <<>>,
            {"type:epic", "agent:tech-lead"}) }

Stores(n) == UNION { [1..k -> ItemPool] : k \in 0..n }

RECURSIVE ListPrsFrom(_, _)
ListPrsFrom(st, k) ==
    IF k > Len(Repos) THEN <<>>
    ELSE SelectSeq(st, LAMBDA it : it.kind = "pr" /\ it.repo = Repos[k])
         \o ListPrsFrom(st, k + 1)

\* GitHubClient.list_prs(state="open")
ListPrs(st) == ListPrsFrom(st, 1)

\* the post-retrieval label filter of list_issues
MatchesLabel(it, label_filter) ==
    IF label_filter = "agent:*"
    THEN it.labels \cap AgentLabels # {}
    ELSE label_filter \in it.labels

RECURSIVE ListIssuesFrom(_, _, _)
ListIssuesFrom(st, label_filter, k) ==
    IF k > Len(Repos) THEN <<>>
    ELSE SelectSeq(st, LAMBDA it : /\ it.kind = "issue"
                                   /\ it.repo = Repos[k]
                                   /\ MatchesLabel(it, label_filter))
         \o ListIssuesFrom(st, label_filter, k + 1)

\* GitHubClient.list_issues(labels=[label_filter], state="open")
ListIssues(st, label_filter) == ListIssuesFrom(st, label_filter, 1)

\* a faulty variant of the test of the processing label, which finds it on no
\* task
NeverProcessing(it) == FALSE

HasEpicLabel(it) == "type:epic" \in it.labels
HasProcessingLabel(it) == "processing" \in it.labels

\* GitHubClient.get_epics
GetEpics(st) == ListIssues(st, "type:epic")

\* a faulty variant of get_tasks, which keeps the issues labelled as epics
GetTasksWithEpics(st) == ListIssues(st, "agent:*")

\* GitHubClient.get_tasks
GetTasks(st) == SelectSeq(ListIssues(st, "agent:*"), LAMBDA t : ~HasEpicLabel(t))

\* a faulty variant of epic_has_tasks, without the test on the repository
EpicHasTasksAnyRepo(st, epic) ==
    LET epic_ref == <<"#">> \o Str(epic.number)
        tasks == GetTasks(st)
    IN \E i \in 1..Len(tasks) :
          \/ Contains(epic_ref, tasks[i].body)
          \/ Contains(epic_ref, tasks[i].title)

\* GitHubClient.epic_has_tasks
EpicHasTasks(st, epic) ==
    LET epic_ref == <<"#">> \o Str(epic.number)
        tasks == GetTasks(st)
    IN \E i \in 1..Len(tasks) :
          /\ tasks[i].repo = epic.repo
          /\ \/ Contains(epic_ref, tasks[i].body)
             \/ Contains(epic_ref, tasks[i].title)

----------------------------------------------------------------------------
(* Faulty variants of rules of the program. A property that depends on a rule
   does not hold of the program in which the variant replaces the rule. *)

\* going through the open tasks before the pull requests
TasksFirstOrder == <<"implement_task", "review_pr", "decompose_epic">>

\* a Dedup Tracker that lets every action through
CanProcessAlways(tracker, action) == TRUE

\* looping over everything the oracle proposed
AllProposals(proposed, max_actions) == proposed

\* a Snapshot Builder without the floor on task numbers
KeepEveryTask(t) == TRUE

\* an enrichment that takes the oracle at its word and returns the proposal
\* without looking its target up in the Snapshot
EnrichUnresolved(action, st) ==
    IF {"type", "repo", "number"} \subseteq DOMAIN action
    THEN [outcome |-> "action", action |-> action]
    ELSE [outcome |-> "raise"]

\* a floor that lets task number 0 and above through
FloorAtZero(t) == ~(t.number < 0)

\* a loop whose `except Exception` catches nothing
CatchesNothing(mode) == FALSE

\* a loop that starts the next cycle at once after an idle cycle
NoSleepWhenIdle(prev) == IF prev = "idle" THEN 0 ELSE LoopInterval

\* a loop that does not clear the Dedup Tracker
KeptTracker(tracker) == tracker

\* a timeout retried like any other failure
RetryTimedOut(attempt) == attempt < RetryAttempts - 1

\* a timed-out call reporting the maximum number of attempts
ReportMaxAttempts(attempt) == RetryAttempts

\* execute_task returning the result of implement_task without the post-hook
AfterCommandNoHook(w) == "append"

\* a retry loop that waits and goes on after every failed attempt
RetryAlways(attempt) == TRUE

\* a tier's loop that stops one item short of the remaining budget
TierItemsOffByOne(items, max_actions, selected) ==
    Slice(items, max_actions - selected - 1)

----------------------------------------------------------------------------
(* Snapshot Builder *)

EmptyState == [prs |-> <<>>, open_items |-> <<>>, processing_items |-> <<>>,
               epics |-> <<>>]

KeptTask(t) == ~(t.number < IgnoreOldTasksBeforeNumber)

\* DulienOrchestrator._scan_github_state, as a function of the store
ScanState(st) ==
    LET all_tasks == GetTasks(st) IN
    [prs |-> ListPrs(st),
     open_items |->
        SelectSeq(all_tasks, LAMBDA t : KeptTask(t) /\ ~HasProcessingLabel(t)),
     processing_items |->
        SelectSeq(all_tasks, LAMBDA t : KeptTask(t) /\ HasProcessingLabel(t)),
     epics |-> SelectSeq(GetEpics(st), LAMBDA e : ~EpicHasTasks(st, e))]

(* _scan_github_state read by read. list_prs and list_issues run one gh call
   for each repository, and the scan calls them in turn: list_prs, get_tasks,
   get_epics, then get_tasks again inside epic_has_tasks for every epic. *)

\* scan: no scan is under way
NoScan == [phase |-> "none", seen |-> {}]

\* scan at the entry of _scan_github_state:
\*   phase      the call under way: "prs" (list_prs), "tasks" (get_tasks),
\*              "epics" (get_epics), "epic_tasks" (epic_has_tasks), "done"
\*   k          the repository the next gh call reads
\*   acc        all_prs / all_issues of the call under way
\*   prs, all_tasks, epics   what the finished calls returned
\*   e          the epic of the loop `for epic in epics`
\*   kept       epics_without_tasks
\*   seen       the states the store has been in since the scan began
ScanBegin(st) ==
    [phase |-> "prs", k |-> 1, acc |-> <<>>, prs |-> <<>>, all_tasks |-> <<>>,
     epics |-> <<>>, e |-> 1, kept |-> <<>>, seen |-> {st}]

\* list_prs: the gh call for repository k
PrsOfRepo(st, k) ==
    SelectSeq(st, LAMBDA it : it.kind = "pr" /\ it.repo = Repos[k])

\* list_issues: the gh call for repository k and the label filter
IssuesOfRepo(st, label_filter, k) ==
    SelectSeq(st, LAMBDA it : /\ it.kind = "issue"
                              /\ it.repo = Repos[k]
                              /\ MatchesLabel(it, label_filter))

\* epic_has_tasks, given the list its call of get_tasks returned
ReferredBy(tasks, epic) ==
    LET epic_ref == <<"#">> \o Str(epic.number)
    IN \E i \in 1..Len(tasks) :
          /\ tasks[i].repo = epic.repo
          /\ \/ Contains(epic_ref, tasks[i].body)
             \/ Contains(epic_ref, tasks[i].title)

\* the scan after the gh call that reads repository sc.k from store st
ReadRepo(sc, st) ==
    LET read == sc.acc \o (IF sc.phase = "prs" THEN PrsOfRepo(st, sc.k)
                           ELSE IssuesOfRepo(st, IF sc.phase = "epics"
                                                 THEN "type:epic"
                                                 ELSE "agent:*", sc.k))
        tasks == SelectSeq(read, LAMBDA t : ~HasEpicLabel(t))
    IN IF sc.k < Len(Repos) THEN [sc EXCEPT !.k = sc.k + 1, !.acc = read]
       ELSE CASE sc.phase = "prs" ->
                   [sc EXCEPT !.phase = "tasks", !.k = 1, !.acc = <<>>,
                              !.prs = read]
              [] sc.phase = "tasks" ->
                   [sc EXCEPT !.phase = "epics", !.k = 1, !.acc = <<>>,
                              !.all_tasks = tasks]
              [] sc.phase = "epics" ->
                   [sc EXCEPT !.phase = IF read = <<>> THEN "done"
                                        ELSE "epic_tasks",
                              !.k = 1, !.acc = <<>>, !.epics = read]
              [] sc.phase = "epic_tasks" ->
                   [sc EXCEPT !.phase = IF sc.e = Len(sc.epics) THEN "done"
                                        ELSE "epic_tasks",
                              !.k = 1, !.acc = <<>>, !.e = sc.e + 1,
                              !.kept = IF ReferredBy(tasks, sc.epics[sc.e])
                                       THEN sc.kept
                                       ELSE Append(sc.kept, sc.epics[sc.e])]

\* the dict _scan_github_state returns
ScanResult(sc) ==
    [prs |-> sc.prs,
     open_items |->
        SelectSeq(sc.all_tasks,
                  LAMBDA t : KeptTask(t) /\ ~HasProcessingLabel(t)),
     processing_items |->
        SelectSeq(sc.all_tasks,
                  LAMBDA t : KeptTask(t) /\ HasProcessingLabel(t)),
     epics |-> sc.kept]

----------------------------------------------------------------------------
(* Dedup Tracker *)

\* action_key of _can_process_action
ActionKey(action) == <<action.type, action.repo, action.number>>

\* what _can_process_action returns
CanProcessAction(tracker, action) == ActionKey(action) \notin tracker

\* self.current_run_actions after _can_process_action
TrackerAfter(tracker, action) == tracker \cup {ActionKey(action)}

----------------------------------------------------------------------------
(* Decision Engine: the deterministic fallback *)

\* the dict one tier of _simple_decision_logic appends for an item
FallbackAction(type, item) ==
    CASE type = "review_pr" ->
           [type |-> "review_pr", repo |-> item.repo, number |-> item.number,
            title |-> item.title, priority |-> 1]
      [] type = "implement_task" ->
           [type |-> "implement_task", repo |-> item.repo, number |-> item.number,
            title |-> item.title, body |-> item.body, priority |-> 2]
      [] type = "decompose_epic" ->
           [type |-> "decompose_epic", repo |-> item.repo, number |-> item.number,
            title |-> item.title, body |-> item.body, priority |-> 3]

\* how many items of a tier's collection its loop iterates over
TierItems(items, max_actions, selected) == Slice(items, max_actions - selected)

\* `if len(actions) >= max_actions: return actions` inside a tier's loop
BudgetReached(selected, max_actions) == selected >= max_actions

RECURSIVE TierLoop(_, _, _, _)
\* one `for` loop of _simple_decision_logic;
\* acc = [actions, tracker, returned (the function has returned)]
TierLoop(items, type, acc, max_actions) ==
    IF items = <<>> \/ acc.returned THEN acc
    ELSE LET a == FallbackAction(type, Head(items)) IN
         IF CanProcessAction(acc.tracker, a)
         THEN LET acts == Append(acc.actions, a) IN
              TierLoop(Tail(items), type,
                       [actions |-> acts,
                        tracker |-> TrackerAfter(acc.tracker, a),
                        returned |-> BudgetReached(Len(acts), max_actions)],
                       max_actions)
         ELSE TierLoop(Tail(items), type, acc, max_actions)

\* the order in which _simple_decision_logic goes through the collections
TierOrder == <<"review_pr", "implement_task", "decompose_epic">>

\* a faulty variant: the implement tier goes through every task, processing
\* tasks included
TierCollectionAllTasks(type, st) ==
    CASE type = "review_pr" -> st.prs
      [] type = "implement_task" -> st.open_items \o st.processing_items
      [] type = "decompose_epic" -> st.epics
      [] type = "monitor_task" -> st.processing_items
      [] OTHER -> <<>>

\* the collection of the Snapshot an action type is about
TierCollection(type, st) ==
    CASE type = "review_pr" -> st.prs
      [] type = "implement_task" -> st.open_items
      [] type = "decompose_epic" -> st.epics
      [] type = "monitor_task" -> st.processing_items
      [] OTHER -> <<>>

RECURSIVE Tiers(_, _, _, _)
Tiers(k, st, acc, max_actions) ==
    IF k > Len(TierOrder) \/ acc.returned THEN acc
    ELSE Tiers(k + 1, st,
               TierLoop(TierItems(TierCollection(TierOrder[k], st), max_actions,
                                  Len(acc.actions)),
                        TierOrder[k], acc, max_actions),
               max_actions)

\* DulienOrchestrator._simple_decision_logic: [actions, tracker]
SimpleDecisionLogic(st, tracker, max_actions) ==
    LET r == Tiers(1, st, [actions |-> <<>>, tracker |-> tracker,
                           returned |-> FALSE], max_actions)
    IN [actions |-> r.actions, tracker |-> r.tracker]

----------------------------------------------------------------------------
(* Decision Engine: the oracle (Mistral) path *)

KnownTypes == {"review_pr", "implement_task", "decompose_epic", "monitor_task"}

\* Entries of the "actions" list of the oracle's JSON: a proposal of each known
\* type (resolvable or not, depending on the store), one of an unknown type,
\* and one without "number" (a record has exactly the keys of the dict).
ProposalPool ==
    { [type |-> "review_pr", repo |-> "webapp", number |-> 12],
      [type |-> "implement_task", repo |-> "webapp", number |-> 55],
      [type |-> "decompose_epic", repo |-> "infrastructure", number |-> 60],
      [type |-> "monitor_task", repo |-> "infrastructure", number |-> 57],
      [type |-> "deploy", repo |-> "webapp", number |-> 12],
      [type |-> "review_pr", repo |-> "webapp"] }

\* What self.ollama.generate + json.loads give:
\*   raise      generate raised (unreachable, timeout)
\*   malformed  the response is no JSON, or no dict, or "actions" is no list:
\*              json.loads, decision.get, len(actions) or actions[:K] raises
\*   json       a dict; actions = decision.get("actions", [])
OracleResponses ==
    {[kind |-> "raise"], [kind |-> "malformed"]}
    \cup { [kind |-> "json", actions |-> a] :
              a \in UNION { [1..k -> ProposalPool] : k \in 0..MaxProposals } }

NoResponse == [kind |-> "none"]

\* the fields _enrich_action copies from the Snapshot item into the action
EnrichedFields(type, item) ==
    IF type \in {"implement_task", "decompose_epic"}
    THEN [title |-> item.title, body |-> item.body]
    ELSE [title |-> item.title]

\* the test `x["repo"] == action["repo"] and x["number"] == action["number"]`
SameTarget(item, action) == item.repo = action.repo /\ item.number = action.number

\* DulienOrchestrator._enrich_action:
\*   [outcome |-> "raise"]                     a KeyError / TypeError
\*   [outcome |-> "none"]                      return None
\*   [outcome |-> "action", action |-> dict]   the enriched action
EnrichAction(action, st) ==
    IF "type" \notin DOMAIN action THEN [outcome |-> "raise"]
    ELSE IF action.type \notin KnownTypes THEN [outcome |-> "none"]
    ELSE
      LET items == TierCollection(action.type, st)
          \* the items at which the loop stops: by a return or by a KeyError
          Stops(i) == \/ "repo" \notin DOMAIN action
                      \/ /\ items[i].repo = action.repo
                         /\ \/ "number" \notin DOMAIN action
                            \/ SameTarget(items[i], action)
          hits == {i \in 1..Len(items) : Stops(i)}
      IN IF hits = {} THEN [outcome |-> "none"]
         ELSE LET i == CHOOSE j \in hits : \A h \in hits : j <= h IN
              IF "repo" \notin DOMAIN action \/ "number" \notin DOMAIN action
              THEN [outcome |-> "raise"]
              ELSE [outcome |-> "action",
                    action |-> EnrichedFields(action.type, items[i]) @@ action]

\* the proposals the loop of _decide_actions goes through
PolicyProposals(proposed, max_actions) == Slice(proposed, max_actions)

RECURSIVE PolicyLoop(_, _, _)
\* the `for action in actions[:K]` loop of _decide_actions;
\* acc = [actions (enriched_actions), tracker, raised]
PolicyLoop(proposals, st, acc) ==
    IF proposals = <<>> \/ acc.raised THEN acc
    ELSE LET e == EnrichAction(Head(proposals), st) IN
         CASE e.outcome = "raise" -> [acc EXCEPT !.raised = TRUE]
           [] e.outcome = "none" -> PolicyLoop(Tail(proposals), st, acc)
           [] e.outcome = "action" ->
                IF CanProcessAction(acc.tracker, e.action)
                THEN PolicyLoop(Tail(proposals), st,
                                [acc EXCEPT !.actions = Append(@, e.action),
                                            !.tracker = TrackerAfter(@, e.action)])
                ELSE PolicyLoop(Tail(proposals), st, acc)

\* DulienOrchestrator._decide_actions: [actions, tracker, strategy]
\*   strategy = "fallback"       Mistral is not available
\*              "policy"         the enriched proposals are returned
\*              "policy_failed"  the except clause ran the fallback
DecideOutcome(st, tracker, max_actions, available, resp) ==
    IF ~available
    THEN SimpleDecisionLogic(st, tracker, max_actions) @@ [strategy |-> "fallback"]
    ELSE IF resp.kind # "json"
    THEN SimpleDecisionLogic(st, tracker, max_actions)
            @@ [strategy |-> "policy_failed"]
    ELSE LET r == PolicyLoop(PolicyProposals(resp.actions, max_actions), st,
                             [actions |-> <<>>, tracker |-> tracker,
                              raised |-> FALSE])
         IN IF r.raised
            THEN SimpleDecisionLogic(st, r.tracker, max_actions)
                    @@ [strategy |-> "policy_failed"]
            ELSE [actions |-> r.actions, tracker |-> r.tracker,
                  strategy |-> "policy"]

----------------------------------------------------------------------------
(* The control thread: run_cycle up to the decision *)

\* _scan_github_state: one gh call of list_prs or list_issues; the call that
\* ends the scan returns the Snapshot to run_cycle
ReadRepository ==
    /\ pc = "scan"
    /\ scan' = ReadRepo(IF scan.phase = "none" THEN ScanBegin(store) ELSE scan,
                        store)
    /\ IF scan'.phase = "done"
       THEN state' = ScanResult(scan') /\ pc' = "decide"
       ELSE UNCHANGED <<state, pc>>
    /\ UNCHANGED <<store, max_parallel_actions, ollama, response, strategy,
                   current_run_actions, actions, threads, joined, results,
                   cycle_status, loop, orphans>>

\* run_cycle, step 1: github_state = self._scan_github_state(), taken as one
\* step (no other thread changes the store while it runs)
ScanGithubState ==
    /\ pc = "scan"
    /\ state' = ScanState(store)
    /\ pc' = "decide"
    /\ UNCHANGED <<store, max_parallel_actions, ollama, response, strategy,
                   current_run_actions, actions, threads, joined, results,
                   cycle_status, loop, orphans, scan>>

\* run_cycle, step 2: actions = self._decide_actions(github_state)
DecideActions ==
    /\ pc = "decide"
    /\ \E resp \in (IF ollama THEN OracleResponses ELSE {NoResponse}) :
          LET d == DecideOutcome(state, current_run_actions,
                                 max_parallel_actions, ollama, resp)
          IN /\ response' = resp
             /\ actions' = d.actions
             /\ current_run_actions' = d.tracker
             /\ strategy' = d.strategy
    /\ pc' = "execute"
    /\ UNCHANGED <<store, max_parallel_actions, ollama, state, threads,
                   joined, results, cycle_status, loop, orphans, scan>>

----------------------------------------------------------------------------
(* Task Executor: the workers (ClaudeAgent.execute_task in a thread) *)

NoResult == [status |-> "none"]

\* a thread of _execute_actions before it runs:
\*   action     the action it was started for
\*   pc         its position in execute_with_result / execute_task
\*   attempt    the loop variable of _run_claude_command
\*   made       how many times subprocess.run([claude ...]) was called
\*   last       how the last of these calls ended
\*   slept      how many times time.sleep(self.retry_delay) was called
\*   result     the dict execute_task returns
\*   abandoned  the control thread's join of this thread timed out
NewWorker(action) ==
    [action |-> action, pc |-> "start", attempt |-> 0, made |-> 0,
     last |-> "none", slept |-> 0, result |-> NoResult, abandoned |-> FALSE]

\* thread.is_alive()
IsAlive(w) == w.pc \notin {"finished", "crashed"}

\* how one subprocess.run([claude ...], timeout=timeout) can end
AttemptOutcomes == {"success", "failure", "exception", "timeout"}

\* the timeout _run_claude_command passes to subprocess.run
CommandTimeout(action) ==
    IF action.type = "monitor_task" THEN MonitorTimeout ELSE ActionTimeout

\* f"Command timed out after {timeout} seconds"; an error message is the
\* tuple of its parts
TimeoutError(timeout) == <<"Command timed out after", timeout, "seconds">>

\* where execute_task goes once _run_claude_command has returned
AfterCommand(w) == IF w.action.type = "implement_task" THEN "post_hook" ELSE "append"

\* whether the loop of _run_claude_command goes on after a failed attempt
RetryAllowed(attempt) == attempt < RetryAttempts - 1

\* the "attempts" a timed-out call reports
TimeoutAttempts(attempt) == attempt + 1

\* whether a timed-out attempt is followed by another one (it is not)
RetryAfterTimeout(attempt) == FALSE

\* One iteration of the loop of _run_claude_command: subprocess.run ends by
\* `outcome`; the worker after the iteration.
AttemptStep(w, outcome) ==
    LET ran == [w EXCEPT !.made = w.made + 1, !.last = outcome]
        Return(r) == [ran EXCEPT !.result = r, !.pc = AfterCommand(w)]
        Retry == [ran EXCEPT !.slept = w.slept + 1, !.attempt = w.attempt + 1]
    IN CASE outcome = "success" ->
              Return([status |-> "success", attempt |-> w.attempt + 1])
         [] outcome = "failure" ->
              IF RetryAllowed(w.attempt) THEN Retry
              ELSE Return([status |-> "failed", error |-> <<"stderr">>,
                           attempts |-> RetryAttempts])
         [] outcome = "timeout" ->
              IF RetryAfterTimeout(w.attempt) THEN Retry
              ELSE Return([status |-> "failed",
                           error |-> TimeoutError(CommandTimeout(w.action)),
                           attempts |-> TimeoutAttempts(w.attempt)])
         [] outcome = "exception" ->
              IF RetryAllowed(w.attempt) THEN Retry
              ELSE Return([status |-> "failed", error |-> <<"exception">>,
                           attempts |-> RetryAttempts])

\* entry of the loop `for attempt in range(self.retry_attempts)`
EnterCommand(w) ==
    IF RetryAttempts > 0 THEN [w EXCEPT !.pc = "attempt"]
    ELSE [w EXCEPT !.pc = AfterCommand(w),
                   !.result = [status |-> "failed",
                               error |-> <<"Max retry attempts reached">>,
                               attempts |-> RetryAttempts]]

\* gh issue edit <number> --repo <repo> --add-label / --remove-label
EditLabels(st, repo, number, add, remove) ==
    [k \in 1..Len(st) |->
        IF st[k].kind = "issue" /\ st[k].repo = repo /\ st[k].number = number
        THEN [st[k] EXCEPT !.labels = (@ \cup add) \ remove]
        ELSE st[k]]

\* how a gh call of _add_label / _remove_label can end: the label is edited,
\* gh exits with an error, or subprocess.run raises (gh cannot be started)
LabelOutcomes == {"ok", "failed", "raise"}

\* execute_with_result -> ClaudeAgent.execute_task: the dispatch on the type
ExecuteTask(i) ==
    /\ threads[i].pc = "start"
    /\ threads' =
         [threads EXCEPT ![i] =
            IF threads[i].action.type = "implement_task"
            THEN [@ EXCEPT !.pc = "pre_hook"]
            ELSE IF threads[i].action.type \in KnownTypes
            THEN EnterCommand(@)
            ELSE [@ EXCEPT !.pc = "append",
                           !.result =
                               [status |-> "failed",
                                error |-> <<"Unknown action type",
                                            threads[i].action.type>>]]]
    /\ UNCHANGED <<store, max_parallel_actions, ollama, pc, state, response,
                   strategy, current_run_actions, actions, joined, results,
                   cycle_status, loop, orphans, scan>>

\* _implement_task: self._add_label(repo, number, "processing")
PreHookWith(i, outcomes) ==
    /\ threads[i].pc = "pre_hook"
    /\ \E o \in outcomes :
          /\ store' = IF o = "ok"
                      THEN EditLabels(store, threads[i].action.repo,
                                      threads[i].action.number, {"processing"}, {})
                      ELSE store
          /\ threads' = [threads EXCEPT ![i] =
                            IF o = "raise" THEN [@ EXCEPT !.pc = "crashed"]
                            ELSE EnterCommand(@)]
    /\ UNCHANGED <<max_parallel_actions, ollama, pc, state, response,
                   strategy, current_run_actions, actions, joined, results,
                   cycle_status, loop, orphans, scan>>

\* the pre-hook, its gh call ending in any of the ways it can
PreHook(i) == PreHookWith(i, LabelOutcomes)

\* _run_claude_command: one attempt
Attempt(i) ==
    /\ threads[i].pc = "attempt"
    /\ \E outcome \in AttemptOutcomes :
          threads' = [threads EXCEPT ![i] = AttemptStep(@, outcome)]
    /\ UNCHANGED <<store, max_parallel_actions, ollama, pc, state, response,
                   strategy, current_run_actions, actions, joined, results,
                   cycle_status, loop, orphans, scan>>

\* _implement_task after _run_claude_command: add 'status:review-requested'
\* on success, remove 'processing' otherwise
PostHookWith(i, outcomes) ==
    /\ threads[i].pc = "post_hook"
    /\ \E o \in outcomes :
          /\ store' = IF o # "ok" THEN store
                      ELSE IF threads[i].result.status = "success"
                      THEN EditLabels(store, threads[i].action.repo,
                                      threads[i].action.number,
                                      {"status:review-requested"}, {})
                      ELSE EditLabels(store, threads[i].action.repo,
                                      threads[i].action.number, {}, {"processing"})
          /\ threads' = [threads EXCEPT ![i].pc =
                            IF o = "raise" THEN "crashed" ELSE "append"]
    /\ UNCHANGED <<max_parallel_actions, ollama, pc, state, response,
                   strategy, current_run_actions, actions, joined, results,
                   cycle_status, loop, orphans, scan>>

\* the post-hook, its gh call ending in any of the ways it can
PostHook(i) == PostHookWith(i, LabelOutcomes)

\* a faulty variant of execute_with_result: the closure reads the loop variable
\* `action` of _execute_actions when it runs (the action started last) instead
\* of its own argument
AppendResultLateBinding(i) ==
    /\ threads[i].pc = "append"
    /\ results' = Append(results,
                         [action |-> actions[Len(threads)]] @@ threads[i].result)
    /\ threads' = [threads EXCEPT ![i].pc = "finished"]
    /\ UNCHANGED <<store, max_parallel_actions, ollama, pc, state, response,
                   strategy, current_run_actions, actions, joined,
                   cycle_status, loop, orphans, scan>>

\* execute_with_result: result["action"] = action; result_list.append(result)
AppendResult(i) ==
    /\ threads[i].pc = "append"
    /\ results' = Append(results,
                         [action |-> threads[i].action] @@ threads[i].result)
    /\ threads' = [threads EXCEPT ![i].pc = "finished"]
    /\ UNCHANGED <<store, max_parallel_actions, ollama, pc, state, response,
                   strategy, current_run_actions, actions, joined,
                   cycle_status, loop, orphans, scan>>

----------------------------------------------------------------------------
(* Task Executor: the control thread in _execute_actions, and run_cycle *)

\* run_cycle: `if not actions: return {"status": "idle", ...}`
ReturnIdle ==
    /\ pc = "execute"
    /\ actions = <<>>
    /\ cycle_status' = "idle"
    /\ pc' = "done"
    /\ UNCHANGED <<store, max_parallel_actions, ollama, state, response,
                   strategy, current_run_actions, actions, threads, joined,
                   results, loop, orphans, scan>>

\* _execute_actions: one iteration of `for action in actions: ... thread.start()`
StartThread ==
    /\ pc = "execute"
    /\ Len(threads) < Len(actions)
    /\ threads' = Append(threads, NewWorker(actions[Len(threads) + 1]))
    /\ UNCHANGED <<store, max_parallel_actions, ollama, pc, state, response,
                   strategy, current_run_actions, actions, joined, results,
                   cycle_status, loop, orphans, scan>>

\* _execute_actions: one iteration of `for thread in threads:
\* thread.join(timeout=timeout)`: the thread has ended, or the timeout elapses
\* while it is alive (only a warning is logged)
JoinThread ==
    /\ pc = "execute"
    /\ actions # <<>>
    /\ Len(threads) = Len(actions)
    /\ joined < Len(threads)
    /\ joined' = joined + 1
    /\ threads' = [threads EXCEPT ![joined + 1].abandoned =
                                 IsAlive(threads[joined + 1])]
    /\ UNCHANGED <<store, max_parallel_actions, ollama, pc, state, response,
                   strategy, current_run_actions, actions, results,
                   cycle_status, loop, orphans, scan>>

\* _execute_actions returns results; run_cycle returns the summary
ReturnCompleted ==
    /\ pc = "execute"
    /\ actions # <<>>
    /\ Len(threads) = Len(actions)
    /\ joined = Len(threads)
    /\ cycle_status' = "completed"
    /\ pc' = "done"
    /\ UNCHANGED <<store, max_parallel_actions, ollama, state, response,
                   strategy, current_run_actions, actions, threads, joined,
                   results, loop, orphans, scan>>

----------------------------------------------------------------------------
(* main and run_continuous: the loop around run_cycle *)

\* whether the caller of run_cycle catches an Exception it raises:
\* run_continuous does (`except Exception`), main with --once does not
CatchesException(mode) == mode = "continuous"

\* the argument of the time.sleep that follows a cycle, however it ended
SleepTime(prev) == LoopInterval

\* self.current_run_actions.clear()
ClearedTracker(tracker) == {}

\* the threads of `ws` that have not ended
Alive(ws) == SelectSeq(ws, IsAlive)

RECURSIVE BagOf(_)
\* the bag of the elements of sequence s
BagOf(s) == IF s = <<>> THEN EmptyBag ELSE SetToBag({Head(s)}) (+) BagOf(Tail(s))

\* One step of a worker w that belongs to an earlier cycle, with the store
\* st: the steps of execute_with_result (ExecuteTask, PreHook, Attempt,
\* PostHook, AppendResult); its result_list is the list of that earlier cycle.
WorkerNext(w, st) ==
    CASE w.pc = "start" ->
           { [w |-> IF w.action.type = "implement_task"
                    THEN [w EXCEPT !.pc = "pre_hook"]
                    ELSE IF w.action.type \in KnownTypes
                    THEN EnterCommand(w)
                    ELSE [w EXCEPT !.pc = "append",
                                   !.result =
                                       [status |-> "failed",
                                        error |-> <<"Unknown action type",
                                                    w.action.type>>]],
              store |-> st] }
      [] w.pc = "pre_hook" ->
           { [w |-> IF o = "raise" THEN [w EXCEPT !.pc = "crashed"]
                    ELSE EnterCommand(w),
              store |-> IF o = "ok"
                        THEN EditLabels(st, w.action.repo, w.action.number,
                                        {"processing"}, {})
                        ELSE st] : o \in LabelOutcomes }
      [] w.pc = "attempt" ->
           { [w |-> AttemptStep(w, outcome), store |-> st] :
                outcome \in AttemptOutcomes }
      [] w.pc = "post_hook" ->
           { [w |-> [w EXCEPT !.pc = IF o = "raise" THEN "crashed" ELSE "append"],
              store |-> IF o # "ok" THEN st
                        ELSE IF w.result.status = "success"
                        THEN EditLabels(st, w.action.repo, w.action.number,
                                        {"status:review-requested"}, {})
                        ELSE EditLabels(st, w.action.repo, w.action.number,
                                        {}, {"processing"})] :
                o \in LabelOutcomes }
      [] w.pc = "append" -> { [w |-> [w EXCEPT !.pc = "finished"], store |-> st] }
      [] OTHER -> {}

\* A worker of an earlier cycle, as far as the rest of the program can still
\* tell: what it has left to do. The bookkeeping of its attempts and the
\* content of its result, which only the abandoned list would receive, are
\* dropped.
Orphaned(w) ==
    [w EXCEPT !.made = 0, !.last = "none", !.slept = 0, !.abandoned = FALSE,
              !.result = [status |-> w.result.status]]

\* a worker of an earlier cycle takes a step; it leaves `orphans` when it ends
OrphanStep ==
    /\ \E w \in BagToSet(orphans) : \E n \in WorkerNext(w, store) :
          /\ store' = n.store
          /\ orphans' = IF IsAlive(n.w)
                        THEN (orphans (-) SetToBag({w}))
                                 (+) SetToBag({Orphaned(n.w)})
                        ELSE orphans (-) SetToBag({w})
    /\ scan' = IF scan.phase \in {"none", "done"} THEN scan
               ELSE [scan EXCEPT !.seen = @ \cup {store'}]
    /\ UNCHANGED <<max_parallel_actions, ollama, pc, state, response, strategy,
                   current_run_actions, actions, threads, joined, results,
                   cycle_status, loop>>

\* run_continuous: `if not self.claude.validate_environment(): sys.exit(1)`
ValidateEnvironment ==
    /\ pc = "validate"
    /\ \E valid \in BOOLEAN :
          IF valid
          THEN pc' = "clear" /\ loop' = loop
          ELSE pc' = "exit" /\ loop' = [loop EXCEPT !.exit = "validation"]
    /\ UNCHANGED <<store, max_parallel_actions, ollama, state, response,
                   strategy, current_run_actions, actions, threads, joined,
                   results, cycle_status, orphans, scan>>

\* the loop body begins: self.current_run_actions.clear(), then run_cycle is
\* entered with fresh locals; the threads of the cycle before that are still
\* alive go on running
ClearTracker ==
    /\ pc = "clear"
    /\ BagCardinality(orphans) + Len(Alive(threads)) <= MaxOrphans
    /\ current_run_actions' = ClearedTracker(current_run_actions)
    /\ loop' = [loop EXCEPT !.prev_keys = current_run_actions]
    /\ orphans' = orphans (+) BagOf([k \in 1..Len(Alive(threads)) |->
                                        Orphaned(Alive(threads)[k])])
    /\ state' = EmptyState
    /\ response' = NoResponse
    /\ strategy' = "none"
    /\ actions' = <<>>
    /\ threads' = <<>>
    /\ joined' = 0
    /\ results' = <<>>
    /\ cycle_status' = "none"
    /\ pc' = "scan"
    /\ UNCHANGED <<store, max_parallel_actions, ollama, scan>>

\* an exception is raised inside run_cycle (subprocess.run cannot start gh,
\* thread.start() fails, ...) and leaves it: no summary is returned
CycleRaises ==
    /\ pc \in {"scan", "decide", "execute"}
    /\ pc' = "raised"
    /\ UNCHANGED <<store, max_parallel_actions, ollama, state, response,
                   strategy, current_run_actions, actions, threads, joined,
                   results, cycle_status, loop, orphans, scan>>

\* run_continuous: run_cycle has returned; the summary is logged
LogSummary ==
    /\ pc = "done"
    /\ loop.mode = "continuous"
    /\ loop' = [loop EXCEPT !.prev = cycle_status]
    /\ pc' = "sleep"
    /\ UNCHANGED <<store, max_parallel_actions, ollama, state, response,
                   strategy, current_run_actions, actions, threads, joined,
                   results, cycle_status, orphans, scan>>

\* run_continuous: `except Exception as e:` logs the error
CatchException ==
    /\ pc = "raised"
    /\ CatchesException(loop.mode)
    /\ loop' = [loop EXCEPT !.prev = "raised"]
    /\ pc' = "sleep"
    /\ UNCHANGED <<store, max_parallel_actions, ollama, state, response,
                   strategy, current_run_actions, actions, threads, joined,
                   results, cycle_status, orphans, scan>>

\* the exception is caught by nobody: the process ends with a traceback
Propagate ==
    /\ pc = "raised"
    /\ ~CatchesException(loop.mode)
    /\ loop' = [loop EXCEPT !.exit = "traceback"]
    /\ pc' = "exit"
    /\ UNCHANGED <<store, max_parallel_actions, ollama, state, response,
                   strategy, current_run_actions, actions, threads, joined,
                   results, cycle_status, orphans, scan>>

\* run_continuous: time.sleep(interval), after a summary or after an error
Sleep ==
    /\ pc = "sleep"
    /\ loop' = [loop EXCEPT !.slept = SleepTime(loop.prev)]
    /\ pc' = "clear"
    /\ UNCHANGED <<store, max_parallel_actions, ollama, state, response,
                   strategy, current_run_actions, actions, threads, joined,
                   results, cycle_status, orphans, scan>>

\* run_continuous: KeyboardInterrupt anywhere in the loop; sys.exit(0)
\* unwinds run_cycle, whose locals are lost; the threads that are alive go on
KeyboardInterrupt ==
    /\ loop.mode = "continuous"
    /\ pc \in {"clear", "scan", "decide", "execute", "done", "raised", "sleep"}
    /\ loop' = [loop EXCEPT !.exit = "interrupt"]
    /\ pc' = "exit"
    /\ orphans' = orphans (+) BagOf([k \in 1..Len(Alive(threads)) |->
                                        Orphaned(Alive(threads)[k])])
    /\ state' = EmptyState
    /\ response' = NoResponse
    /\ strategy' = "none"
    /\ actions' = <<>>
    /\ threads' = <<>>
    /\ joined' = 0
    /\ results' = <<>>
    /\ cycle_status' = "none"
    /\ UNCHANGED <<store, max_parallel_actions, ollama, current_run_actions, scan>>

\* main with --once: print(json.dumps(result)) and return
PrintSummary ==
    /\ pc = "done"
    /\ loop.mode = "once"
    /\ loop' = [loop EXCEPT !.exit = "returned"]
    /\ pc' = "exit"
    /\ UNCHANGED <<store, max_parallel_actions, ollama, state, response,
                   strategy, current_run_actions, actions, threads, joined,
                   results, cycle_status, orphans, scan>>

----------------------------------------------------------------------------
(* Specifications *)

\* main() with --once: the loop of run_continuous is not entered
\*   mode       "once" (main calls run_cycle) or "continuous" (run_continuous)
\*   prev       how the previous cycle of the loop ended
\*   prev_keys  the Dedup Tracker as the previous cycle left it
\*   slept      the seconds of the last time.sleep of the loop
\*   exit       how the process left main: "none" while it has not
NoLoop ==
    [mode |-> "once", prev |-> "none", prev_keys |-> {}, slept |-> 0,
     exit |-> "none"]

\* DulienOrchestrator.__init__, then the entry of run_cycle
InitCycle ==
    /\ pc = "scan"
    /\ state = EmptyState
    /\ response = NoResponse
    /\ strategy = "none"
    /\ current_run_actions = {}
    /\ actions = <<>>
    /\ threads = <<>>
    /\ joined = 0
    /\ results = <<>>
    /\ cycle_status = "none"
    /\ loop = NoLoop
    /\ scan = NoScan
    /\ orphans = EmptyBag

(* The deterministic fallback alone (Mistral is not installed), on every
   store and every budget K *)

InitFallback ==
    /\ store \in Stores(MaxStoreItems)
    /\ max_parallel_actions \in 0..MaxBudget
    /\ ollama = FALSE
    /\ InitCycle

NextFallback == ScanGithubState \/ DecideActions

SpecFallback == InitFallback /\ [][NextFallback]_vars

(* run_cycle up to the start of the workers: the Decision Engine with and
   without the oracle, for every budget K, and the dispatch of its output *)

InitDecide ==
    /\ store \in Stores(MaxCycleItems)
    /\ max_parallel_actions \in 0..MaxBudget
    /\ ollama \in BOOLEAN
    /\ InitCycle

NextDecide ==
    \/ ScanGithubState
    \/ DecideActions
    \/ ReturnIdle
    \/ StartThread

SpecDecide == InitDecide /\ [][NextDecide]_vars

(* _decide_actions with the oracle (Mistral is installed), on stores one item
   longer than those of the fallback runs: long enough for a tier to hold
   more items than the fallback examines *)

InitTakeover ==
    /\ store \in [1..(MaxStoreItems + 1) -> ItemPool]
    /\ max_parallel_actions \in 0..MaxBudget
    /\ ollama = TRUE
    /\ InitCycle

NextTakeover ==
    \/ ScanGithubState
    \/ DecideActions

SpecTakeover == InitTakeover /\ [][NextTakeover]_vars

(* One worker: execute_task on the one action of a cycle that selected one,
   from the moment its thread is started *)

InitAgent ==
    /\ store \in { <<item>> : item \in ItemPool }
    /\ max_parallel_actions = MaxParallelActions
    /\ ollama \in BOOLEAN
    /\ state = ScanState(store)
    /\ \E resp \in (IF ollama THEN OracleResponses ELSE {NoResponse}) :
          LET d == DecideOutcome(state, {}, max_parallel_actions, ollama, resp)
          IN /\ Len(d.actions) = 1
             /\ response = resp
             /\ actions = d.actions
             /\ current_run_actions = d.tracker
             /\ strategy = d.strategy
    /\ threads = <<NewWorker(actions[1])>>
    /\ pc = "execute"
    /\ joined = 0
    /\ results = <<>>
    /\ cycle_status = "none"
    /\ loop = NoLoop
    /\ scan = NoScan
    /\ orphans = EmptyBag

NextAgent ==
    \/ \E i \in 1..Len(threads) : ExecuteTask(i)
    \/ \E i \in 1..Len(threads) : PreHook(i)
    \/ \E i \in 1..Len(threads) : Attempt(i)
    \/ \E i \in 1..Len(threads) : PostHook(i)
    \/ \E i \in 1..Len(threads) : AppendResult(i)

SpecAgent == InitAgent /\ [][NextAgent]_vars

(* One cycle of the orchestrator as configured: run_cycle *)

Init ==
    /\ store \in Stores(MaxCycleItems)
    /\ max_parallel_actions = MaxParallelActions
    /\ ollama \in BOOLEAN
    /\ InitCycle

Next ==
    \/ ScanGithubState
    \/ DecideActions
    \/ ReturnIdle
    \/ StartThread
    \/ JoinThread
    \/ ReturnCompleted
    \/ NextAgent

Spec == Init /\ [][Next]_vars

(* _execute_actions alone, in degraded mode (Mistral is not installed), on the
   actions decided for a store of two items *)

InitExecute ==
    /\ store \in { <<a, b>> : a, b \in ItemPool }
    /\ max_parallel_actions = MaxParallelActions
    /\ ollama = FALSE
    /\ state = ScanState(store)
    /\ LET d == DecideOutcome(state, {}, max_parallel_actions, ollama, NoResponse)
       IN /\ d.actions # <<>>
          /\ actions = d.actions
          /\ current_run_actions = d.tracker
          /\ strategy = d.strategy
    /\ response = NoResponse
    /\ threads = <<>>
    /\ pc = "execute"
    /\ joined = 0
    /\ results = <<>>
    /\ cycle_status = "none"
    /\ loop = NoLoop
    /\ scan = NoScan
    /\ orphans = EmptyBag

NextExecute ==
    \/ StartThread
    \/ JoinThread
    \/ ReturnCompleted
    \/ NextAgent

SpecExecute == InitExecute /\ [][NextExecute]_vars

(* main: a single cycle (--once) or the continuous loop, in degraded mode
   (Mistral is not installed), on a store of at most one item, until the
   process leaves main *)

InitLoop ==
    /\ store \in Stores(1)
    /\ max_parallel_actions = MaxLoopBudget
    /\ ollama = FALSE
    /\ state = EmptyState
    /\ response = NoResponse
    /\ strategy = "none"
    /\ current_run_actions = {}
    /\ actions = <<>>
    /\ threads = <<>>
    /\ joined = 0
    /\ results = <<>>
    /\ cycle_status = "none"
    /\ orphans = EmptyBag
    /\ \E mode \in {"once", "continuous"} :
          /\ loop = [NoLoop EXCEPT !.mode = mode]
          /\ pc = IF mode = "once" THEN "scan" ELSE "validate"
    /\ scan = NoScan

NextLoop ==
    \/ ValidateEnvironment
    \/ ClearTracker
    \/ ScanGithubState
    \/ DecideActions
    \/ ReturnIdle
    \/ StartThread
    \/ JoinThread
    \/ ReturnCompleted
    \/ CycleRaises
    \/ LogSummary
    \/ CatchException
    \/ Propagate
    \/ Sleep
    \/ KeyboardInterrupt
    \/ PrintSummary
    \/ pc # "exit" /\ NextAgent
    \/ pc # "exit" /\ OrphanStep

SpecLoop == InitLoop /\ [][NextLoop]_vars

(* main as in SpecLoop, where every gh label call of a worker succeeds and a
   cycle of the loop begins only when the workers of the cycle before have
   ended, so that the labels of a task are edited by the hooks of one worker
   at a time and by nothing else *)

NextLabels ==
    \/ ValidateEnvironment
    \/ Alive(threads) = <<>> /\ ClearTracker
    \/ ScanGithubState
    \/ DecideActions
    \/ ReturnIdle
    \/ StartThread
    \/ JoinThread
    \/ ReturnCompleted
    \/ LogSummary
    \/ Sleep
    \/ \E i \in 1..Len(threads) : ExecuteTask(i)
    \/ \E i \in 1..Len(threads) : PreHookWith(i, {"ok"})
    \/ \E i \in 1..Len(threads) : Attempt(i)
    \/ \E i \in 1..Len(threads) : PostHookWith(i, {"ok"})
    \/ \E i \in 1..Len(threads) : AppendResult(i)

SpecLabels == InitLoop /\ [][NextLabels]_vars

(* _scan_github_state read by read, in a cycle of the continuous loop that
   begins while the workers of the cycle before, which the control thread
   stopped waiting for, have not yet run: degraded mode, a store of two
   items *)

InitScan ==
    /\ store \in { <<a, b>> : a, b \in ItemPool }
    /\ max_parallel_actions = MaxParallelActions
    /\ ollama = FALSE
    /\ pc = "scan"
    /\ state = EmptyState
    /\ response = NoResponse
    /\ strategy = "none"
    /\ current_run_actions = {}
    /\ actions = <<>>
    /\ threads = <<>>
    /\ joined = 0
    /\ results = <<>>
    /\ cycle_status = "none"
    /\ loop = [NoLoop EXCEPT !.mode = "continuous", !.prev = "completed"]
    /\ scan = NoScan
    /\ LET prev == SimpleDecisionLogic(ScanState(store), {},
                                       max_parallel_actions).actions
       IN orphans = BagOf([i \in 1..Len(prev) |-> Orphaned(NewWorker(prev[i]))])

NextScan ==
    \/ ReadRepository
    \/ OrphanStep

SpecScan == InitScan /\ [][NextScan]_vars

----------------------------------------------------------------------------
(* Properties *)

\* _decide_actions has returned `actions`
Decided == pc \in {"execute", "done"}

\* the priority tier of an action type; 0 for a type outside the three tiers
Rank(type) ==
    CASE type = "review_pr" -> 1
      [] type = "implement_task" -> 2
      [] type = "decompose_epic" -> 3
      [] OTHER -> 0

\* no action of a later tier comes before an action of an earlier tier
TierOrdered(acts) ==
    \A i, j \in 1..Len(acts) :
        (i < j /\ Rank(acts[i].type) > 0 /\ Rank(acts[j].type) > 0)
            => Rank(acts[i].type) <= Rank(acts[j].type)

Types(acts) == {acts[i].type : i \in 1..Len(acts)}

\* p (an action, or a proposal of the oracle, which may lack fields) names the
\* type, repository and number of the action a
SameKey(p, a) ==
    /\ {"type", "repo", "number"} \subseteq DOMAIN p
    /\ p.type = a.type
    /\ p.repo = a.repo
    /\ p.number = a.number

\* the Snapshot collection that matches an action type
Matching(type) ==
    IF type = "review_pr" THEN state.prs
    ELSE IF type = "implement_task" THEN state.open_items
    ELSE IF type = "decompose_epic" THEN state.epics
    ELSE IF type = "monitor_task" THEN state.processing_items
    ELSE <<>>

\* the (repo, number) of proposal p is in the Snapshot collection of its kind
Resolvable(p) ==
    /\ {"type", "repo", "number"} \subseteq DOMAIN p
    /\ \E k \in 1..Len(Matching(p.type)) :
          /\ Matching(p.type)[k].repo = p.repo
          /\ Matching(p.type)[k].number = p.number

\* the proposals of the oracle in this cycle
Proposals == IF response.kind = "json" THEN response.actions ELSE <<>>

(* C1: the deterministic fallback, started with an empty Dedup Tracker,
   returns at most K actions, every review_pr before every implement_task and
   every implement_task before every decompose_epic. *)
C1_FallbackTiersAndBudget ==
    (Decided /\ strategy = "fallback")
        => /\ Len(actions) <= max_parallel_actions
           /\ TierOrdered(actions)

\* the budget cuts the list after a review and an implement action, leaving
\* a task-less epic unselected
C1_Witness ==
    /\ Decided
    /\ strategy = "fallback"
    /\ Len(actions) = max_parallel_actions
    /\ Types(actions) = {"review_pr", "implement_task"}
    /\ state.epics # <<>>

(* C2: the list returned by _decide_actions never holds two actions with the
   same ActionKey (type, repo, number), whichever strategy produced it. *)
C2_NoDuplicateKeys ==
    Decided => \A i, j \in 1..Len(actions) :
                  i # j => ~SameKey(actions[i], actions[j])

\* the oracle proposed the same resolvable action twice within the budget
C2_Witness ==
    /\ Decided
    /\ strategy = "policy"
    /\ \E i, j \in 1..Len(Proposals) :
          /\ i < j
          /\ j <= max_parallel_actions
          /\ Proposals[i] = Proposals[j]
          /\ \E k \in 1..Len(actions) : SameKey(Proposals[i], actions[k])

(* C3: whenever the oracle path fails, at whatever point, _decide_actions
   returns what the deterministic fallback returns for the same Snapshot and
   K from an empty Dedup Tracker. *)
C3_FailureEqualsFallback ==
    (Decided /\ strategy = "policy_failed")
        => actions = SimpleDecisionLogic(state, {}, max_parallel_actions).actions

(* C4: in the list returned by _decide_actions, by either strategy, no
   implement_task precedes a review_pr and no decompose_epic precedes a
   review_pr or an implement_task. *)
C4_TiersWhicheverStrategy == Decided => TierOrdered(actions)

(* C5: _decide_actions returns at most K = max_parallel_actions actions,
   whichever strategy is used and however many actions the oracle proposes. *)
C5_AtMostBudget == Decided => Len(actions) <= max_parallel_actions

\* the oracle proposed more than K actions and K of them were accepted
C5_Witness ==
    /\ Decided
    /\ strategy = "policy"
    /\ max_parallel_actions > 0
    /\ Len(Proposals) > max_parallel_actions
    /\ Len(actions) = max_parallel_actions

\* no two items of a Snapshot collection have the same repository and number
DistinctTargets(items) ==
    \A i, j \in 1..Len(items) :
        i # j => <<items[i].repo, items[i].number>> # <<items[j].repo, items[j].number>>

\* the concatenation PRs, open tasks, task-less epics of the Snapshot, each
\* item mapped to the action of its tier
ExpectedActions ==
    [i \in 1..Len(state.prs) |->
        [type |-> "review_pr", repo |-> state.prs[i].repo,
         number |-> state.prs[i].number, title |-> state.prs[i].title,
         priority |-> 1]]
    \o [i \in 1..Len(state.open_items) |->
        [type |-> "implement_task", repo |-> state.open_items[i].repo,
         number |-> state.open_items[i].number,
         title |-> state.open_items[i].title,
         body |-> state.open_items[i].body, priority |-> 2]]
    \o [i \in 1..Len(state.epics) |->
        [type |-> "decompose_epic", repo |-> state.epics[i].repo,
         number |-> state.epics[i].number, title |-> state.epics[i].title,
         body |-> state.epics[i].body, priority |-> 3]]

\* a task of the store that is being processed or is below the floor
ExcludedTask(it) ==
    /\ it.kind = "issue"
    /\ it.labels \cap AgentLabels # {}
    /\ "type:epic" \notin it.labels
    /\ ("processing" \in it.labels \/ it.number < IgnoreOldTasksBeforeNumber)

(* C6: for a Snapshot of pairwise distinct items and an empty Dedup Tracker,
   the fallback returns exactly the first K elements of (PRs, then open tasks,
   then task-less epics, in Snapshot order) mapped to review_pr /
   implement_task / decompose_epic with priority 1 / 2 / 3; processing tasks
   and tasks below the floor never appear. *)
C6_FallbackIsPrefix ==
    ( /\ Decided
      /\ strategy = "fallback"
      /\ DistinctTargets(state.prs)
      /\ DistinctTargets(state.open_items)
      /\ DistinctTargets(state.epics) )
    => /\ actions = SubSeq(ExpectedActions, 1,
                           IF max_parallel_actions < Len(ExpectedActions)
                           THEN max_parallel_actions ELSE Len(ExpectedActions))
       /\ \A i \in 1..Len(actions) : \A k \in 1..Len(store) :
             ExcludedTask(store[k])
                => ~(actions[i].repo = store[k].repo
                     /\ actions[i].number = store[k].number)

\* the budget cuts the expected list, and the store holds a task that is
\* being processed or is below the floor
C6_Witness ==
    /\ Decided
    /\ strategy = "fallback"
    /\ DistinctTargets(state.prs)
    /\ DistinctTargets(state.open_items)
    /\ DistinctTargets(state.epics)
    /\ max_parallel_actions > 0
    /\ Len(ExpectedActions) > max_parallel_actions
    /\ \E k \in 1..Len(store) : ExcludedTask(store[k])

(* C7: a proposal of the oracle whose (repo, number) is not in the Snapshot
   collection matching its kind, or whose kind is unknown, is never in the
   list _decide_actions returns, and no worker is started for it. *)
C7_UnresolvableNeverDispatched ==
    \A n \in 1..Len(Proposals) :
        ~Resolvable(Proposals[n])
            => /\ \A k \in 1..Len(actions) : ~SameKey(Proposals[n], actions[k])
               /\ \A t \in 1..Len(threads) :
                     ~SameKey(Proposals[n], threads[t].action)

\* the oracle proposed an unresolvable action, and a worker was started for
\* another action of the same answer
C7_Witness ==
    /\ strategy = "policy"
    /\ \E n \in 1..Len(Proposals) : ~Resolvable(Proposals[n])
    /\ Len(threads) > 0

\* the results execute_with_result appended for thread i
ResultsOf(i) == {k \in 1..Len(results) : results[k].action = threads[i].action}

(* C8: in _run_claude_command, once an attempt ends by timeout no further
   attempt is made, whichever attempt it was, and the call returns one result
   with status failed whose error states the timeout. *)
C8_TimeoutIsFinal ==
    /\ [](\A i \in 1..Len(threads) :
            threads[i].last = "timeout"
                => /\ threads[i].pc # "attempt"
                   /\ threads[i].result.status = "failed"
                   /\ threads[i].result.error[1] = "Command timed out after"
                   /\ Cardinality(ResultsOf(i)) <= 1
                   /\ \A k \in ResultsOf(i) :
                         /\ results[k].status = "failed"
                         /\ results[k].error[1] = "Command timed out after")
    /\ [][\A i \in 1..Len(threads) :
            threads[i].last = "timeout"
                => /\ threads'[i].made = threads[i].made
                   /\ threads'[i].result = threads[i].result]_vars

\* a call whose second attempt timed out has returned
C8_Witness ==
    \E i \in 1..Len(threads) :
        /\ threads[i].pc = "finished"
        /\ threads[i].last = "timeout"
        /\ threads[i].made = 2

\* the attempt count a result carries: "attempt" of a success, "attempts" of
\* a failure
AttemptCount(r) == IF "attempt" \in DOMAIN r THEN r.attempt ELSE r.attempts

(* C9: for every sequence of attempt outcomes, _run_claude_command makes at
   most retry_attempts attempts, stops at the first success or timeout, and
   the attempt count of the returned result is the number of attempts made. *)
C9_AttemptsCounted ==
    /\ [](\A i \in 1..Len(threads) :
            /\ threads[i].made <= RetryAttempts
            /\ threads[i].last \in {"success", "timeout"}
                  => threads[i].pc # "attempt"
            /\ threads[i].result.status \in {"success", "failed"}
                  => AttemptCount(threads[i].result) = threads[i].made)
    /\ [][\A i \in 1..Len(threads) :
            threads[i].last \in {"success", "timeout"}
                => threads'[i].made = threads[i].made]_vars

\* a call has returned after retry_attempts attempts, the last ending by an
\* exception
C9_Witness ==
    \E i \in 1..Len(threads) :
        /\ threads[i].pc = "finished"
        /\ threads[i].last = "exception"
        /\ threads[i].made = RetryAttempts
        /\ AttemptCount(threads[i].result) = RetryAttempts

(* C10: when _execute_actions returns, its result list holds exactly one
   result for every dispatched action; an action whose worker was still
   running at its join timeout, or ended abnormally, has a failed result
   (flagged as timeout in the former case). *)
C10_OneResultPerAction ==
    (pc = "done" /\ cycle_status = "completed")
        => \A i \in 1..Len(threads) :
              /\ Cardinality(ResultsOf(i)) = 1
              /\ (threads[i].abandoned \/ threads[i].pc = "crashed")
                    => \A k \in ResultsOf(i) : results[k].status = "failed"
              /\ threads[i].abandoned
                    => \A k \in ResultsOf(i) :
                          /\ "error" \in DOMAIN results[k]
                          /\ results[k].error[1] = "Command timed out after"

(* C11: a worker that completes after the control thread has stopped waiting
   for it changes nothing: the result list _execute_actions has returned, which
   the cycle summary holds, stays as it was returned. *)
C11_LateCompletionDiscarded == [][pc = "done" => results' = results]_vars

\* the tasks of the Snapshot, open and processing
SnapshotTasks == state.open_items \o state.processing_items

\* every item of the Snapshot
SnapshotItems == state.prs \o SnapshotTasks \o state.epics

(* C14 as stated: no item whose number is below the floor is in any collection
   of the Snapshot, PRs and task-less epics included. *)
C14_NoItemBelowFloor ==
    \A i \in 1..Len(SnapshotItems) :
        SnapshotItems[i].number >= IgnoreOldTasksBeforeNumber

(* C14, amended: no task whose number is below the floor is among the open
   tasks or the processing tasks of the Snapshot. *)
C14_NoTaskBelowFloor ==
    \A i \in 1..Len(SnapshotTasks) :
        SnapshotTasks[i].number >= IgnoreOldTasksBeforeNumber

\* the item store held a task below the floor when the Snapshot was built, and
\* the Snapshot holds another task
C14_Witness ==
    /\ pc # "scan"
    /\ \E k \in 1..Len(store) : /\ store[k].kind = "issue"
                                /\ store[k].labels \cap AgentLabels # {}
                                /\ store[k].number < IgnoreOldTasksBeforeNumber
    /\ SnapshotTasks # <<>>

\* item it of the store is a task / an epic
IsTask(it) ==
    /\ it.kind = "issue"
    /\ it.labels \cap AgentLabels # {}
    /\ "type:epic" \notin it.labels

IsEpic(it) == it.kind = "issue" /\ "type:epic" \in it.labels

\* the title or the body of task t holds the reference literal of epic e
Refers(t, e) ==
    LET ref == <<"#">> \o Str(e.number)
    IN Contains(ref, t.title) \/ Contains(ref, t.body)

InSnapshotEpics(e) == \E i \in 1..Len(state.epics) : state.epics[i] = e

(* C15 as stated: an epic is among the task-less epics of the Snapshot if and
   only if no task of the item store, of whichever repository, holds the
   epic's reference literal '#<number>' in its title or body. *)
C15_TasklessIffNoReference ==
    pc # "scan" =>
        \A k \in 1..Len(store) :
            IsEpic(store[k]) =>
                (InSnapshotEpics(store[k])
                    <=> ~\E j \in 1..Len(store) :
                            IsTask(store[j]) /\ Refers(store[j], store[k]))

(* C15, amended: an epic is among the task-less epics of the Snapshot if and
   only if no task of the epic's own repository, among the tasks the item
   store returns, holds the epic's reference literal '#<number>' in its title
   or body. *)
C15_TasklessIffNoReferenceInRepo ==
    pc # "scan" =>
        \A k \in 1..Len(store) :
            IsEpic(store[k]) =>
                (InSnapshotEpics(store[k])
                    <=> ~\E j \in 1..Len(store) :
                            /\ IsTask(store[j])
                            /\ store[j].repo = store[k].repo
                            /\ Refers(store[j], store[k]))

\* an epic is in the Snapshot although a task of another repository holds its
\* reference literal
C15_Witness ==
    /\ pc # "scan"
    /\ \E k, j \in 1..Len(store) :
          /\ IsEpic(store[k])
          /\ InSnapshotEpics(store[k])
          /\ IsTask(store[j])
          /\ store[j].repo # store[k].repo
          /\ Refers(store[j], store[k])

\* action a targets a processing task of the Snapshot
TargetsProcessing(a) ==
    \E k \in 1..Len(state.processing_items) :
        /\ state.processing_items[k].repo = a.repo
        /\ state.processing_items[k].number = a.number

(* C16: in a cycle where the oracle is unavailable or its call failed, the
   deterministic fallback produces no monitor_task action: none is returned,
   none is dispatched, and no returned or dispatched action targets a
   processing task. *)
C16_FallbackNeverMonitors ==
    strategy \in {"fallback", "policy_failed"}
        => /\ \A i \in 1..Len(actions) :
                 /\ actions[i].type # "monitor_task"
                 /\ ~TargetsProcessing(actions[i])
           /\ \A t \in 1..Len(threads) :
                 /\ threads[t].action.type # "monitor_task"
                 /\ ~TargetsProcessing(threads[t].action)

\* the oracle proposed to monitor a processing task of the Snapshot, its
\* answer then failed, and a worker was started for a fallback action
C16_Witness ==
    /\ strategy = "policy_failed"
    /\ \E n \in 1..Len(Proposals) :
          /\ Resolvable(Proposals[n])
          /\ Proposals[n].type = "monitor_task"
    /\ Len(threads) > 0

\* the workers that are running: those of this cycle that have not ended and
\* those of earlier cycles
Running == BagOf(Alive(threads)) (+) orphans

\* the item a worker runs against
Target(w) == <<w.action.repo, w.action.number>>

(* C12: at no time are two executor workers running against the same target
   item (repository, number), within a cycle and across the cycles of the
   continuous loop, the workers the control thread stopped waiting for
   included. *)
C12_NoSharedTarget ==
    \A w1, w2 \in BagToSet(Running) :
        /\ CopiesIn(w1, Running) <= 1
        /\ w1 # w2 => Target(w1) # Target(w2)

(* C13: the number of executor workers running at the same time never
   exceeds K = max_parallel_actions, at any point of the continuous loop. *)
C13_AtMostBudgetRunning == BagCardinality(Running) <= max_parallel_actions

\* the process has left the loop on KeyboardInterrupt
Interrupted == pc = "exit" /\ loop.exit = "interrupt"

(* C17: in run_continuous, once the startup validation has passed, an
   exception raised in a cycle never ends the loop: it is caught, the loop
   sleeps the fixed interval and starts another cycle; the loop ends only on
   KeyboardInterrupt. *)
C17_ExceptionNeverEndsLoop ==
    /\ []((loop.mode = "continuous" /\ pc = "exit")
            => loop.exit \in {"validation", "interrupt"})
    /\ [][(loop.mode = "continuous" /\ pc = "raised")
            => (pc' \in {"raised", "sleep"} \/ Interrupted')]_vars
    /\ [][(pc = "sleep" /\ loop.prev = "raised")
            => \/ pc' = "sleep"
               \/ pc' = "clear" /\ loop'.slept = LoopInterval
               \/ Interrupted']_vars
    /\ [][pc = "clear" => (pc' \in {"clear", "scan"} \/ Interrupted')]_vars

\* a cycle of the loop is under way after a cycle that an exception ended
C17_Witness ==
    /\ loop.mode = "continuous"
    /\ loop.prev = "raised"
    /\ loop.slept = LoopInterval
    /\ pc = "decide"

(* C18: a cycle that hits an exception still yields a cycle summary with a
   status, in single-cycle mode as in the continuous loop: the exception
   does not propagate. *)
C18_ExceptionYieldsSummary ==
    (pc \in {"sleep", "exit"} /\ (loop.prev = "raised" \/ loop.exit = "traceback"))
        => /\ cycle_status \in {"idle", "failed", "completed"}
           /\ loop.exit # "traceback"

(* C19: a cycle reports idle if and only if the Decision Engine selected no
   action; the summary's action list is then empty and no worker is started,
   so that a label changed meanwhile is changed by a worker of an earlier
   cycle; and the loop sleeps the whole interval before the next cycle. *)
C19_IdleCycle ==
    /\ [](/\ pc = "done" => (cycle_status = "idle" <=> actions = <<>>)
          /\ cycle_status = "idle" => (threads = <<>> /\ results = <<>>)
          /\ (pc = "clear" /\ loop.prev = "idle") => loop.slept = LoopInterval)
    /\ [][(cycle_status = "idle" /\ store' # store) => orphans' # orphans]_vars
    /\ [][(pc = "done" /\ loop.mode = "continuous")
            => (pc' \in {"done", "sleep"} \/ Interrupted')]_vars

\* the loop has slept after an idle cycle on a store that is not empty
C19_Witness ==
    /\ pc = "clear"
    /\ loop.prev = "idle"
    /\ loop.slept = LoopInterval
    /\ store # <<>>

(* C20: the Dedup Tracker is empty at the start of every cycle of the
   continuous loop, the cycle after one that an exception ended included; an
   ActionKey selected in a cycle can be selected again in the next one. *)
C20_TrackerEmptyAtCycleStart ==
    pc \in {"scan", "decide"} => current_run_actions = {}

\* the cycle after one that an exception ended has selected the ActionKey
\* that cycle had selected
C20_Witness ==
    /\ loop.prev = "raised"
    /\ pc = "execute"
    /\ actions # <<>>
    /\ \A i \in 1..Len(actions) :
          <<actions[i].type, actions[i].repo, actions[i].number>>
              \in loop.prev_keys

\* the labels of the issue a worker's action names
TargetLabels(st, a) ==
    UNION { st[k].labels : k \in { j \in 1..Len(st) : /\ st[j].kind = "issue"
                                                      /\ st[j].repo = a.repo
                                                      /\ st[j].number = a.number } }

(* C21: for an implement_task action the label hooks are outside the retry
   loop. The pre-hook (add 'processing') is run once, before the first
   attempt; when the last attempt has ended the post-hook is run once (add
   'status:review-requested' after a success, remove 'processing' after any
   failure, a timeout included); the labels change in no other step; a hook
   step makes no attempt and leaves the result alone, and a pre-hook whose gh
   call fails is followed by the first attempt like one that succeeds. *)
C21_HooksOutsideRetryLoop ==
    [][\A i \in 1..Len(threads) :
          (i <= Len(threads') /\ threads'[i].action = threads[i].action
             /\ threads[i].action.type = "implement_task") =>
          LET w == threads[i]
              w2 == threads'[i]
              before == TargetLabels(store, w.action)
              after == TargetLabels(store', w.action)
          IN /\ w2.pc = "pre_hook" => w.pc \in {"start", "pre_hook"}
             /\ (w.pc = "start" /\ w2.pc # "start") => w2.pc = "pre_hook"
             /\ (w.pc = "pre_hook" /\ w2.pc # "pre_hook") =>
                   /\ w.made = 0 /\ w2.made = 0
                   /\ w2.pc \in {"attempt", "crashed"}
                   /\ after \in {before, before \cup {"processing"}}
                   /\ (after # before => w2.pc = "attempt")
             /\ (w.pc = "attempt" /\ w2.pc # "attempt") => w2.pc = "post_hook"
             /\ w2.pc = "post_hook" => w.pc \in {"attempt", "post_hook"}
             /\ (w.pc = "post_hook" /\ w2.pc # "post_hook") =>
                   /\ w2.made = w.made /\ w2.result = w.result
                   /\ w2.pc \in {"append", "crashed"}
                   /\ after \in {before,
                                 IF w.result.status = "success"
                                 THEN before \cup {"status:review-requested"}
                                 ELSE before \ {"processing"}}
                   /\ (after # before => w2.pc = "append")
             /\ after # before => w.pc \in {"pre_hook", "post_hook"}
             /\ w2.made # w.made => w.pc = "attempt"]_vars

\* an implement_task worker has finished after a failed and a successful
\* attempt, and its task carries both labels
C21_Witness ==
    \E i \in 1..Len(threads) :
       /\ threads[i].action.type = "implement_task"
       /\ threads[i].pc = "finished"
       /\ threads[i].made = RetryAttempts
       /\ threads[i].result.status = "success"
       /\ {"processing", "status:review-requested"}
              \subseteq TargetLabels(store, threads[i].action)

(* C22: in _run_claude_command the retry delay is waited once between two
   consecutive attempts and at no other time: only after an attempt that
   ended by a failure or a raised exception and that another attempt follows;
   not after a success, a timeout or the last allowed attempt. *)
C22_DelayBetweenAttemptsOnly ==
    [][\A i \in 1..Len(threads) :
          (i <= Len(threads') /\ threads'[i].action = threads[i].action) =>
          LET w == threads[i]
              w2 == threads'[i]
          IN /\ w2.slept \in {w.slept, w.slept + 1}
             /\ w2.slept = w.slept + 1 =>
                   /\ w2.made = w.made + 1
                   /\ w2.last \in {"failure", "exception"}
                   /\ w2.made < RetryAttempts
                   /\ w2.pc = "attempt"
             /\ w2.made = w.made + 1 =>
                   /\ w.slept = w.made
                   /\ w2.slept = w.slept => w2.pc # "attempt"]_vars

\* a worker has returned after a failed attempt, one delay and an attempt that
\* timed out
C22_Witness ==
    \E i \in 1..Len(threads) :
       /\ threads[i].pc = "finished"
       /\ threads[i].made = RetryAttempts
       /\ threads[i].last = "timeout"
       /\ threads[i].slept = RetryAttempts - 1

\* the time the control thread has spent in the joins that timed out: each of
\* them lasted the whole timeout (the other joins add to it)
JoinWait ==
    ActionTimeout * Cardinality({i \in 1..joined : threads[i].abandoned})

(* C23: the time _execute_actions spends waiting for its workers is at most
   one action timeout, whatever the number of actions dispatched. *)
C23_WaitBoundedByOneTimeout ==
    (pc = "done" /\ cycle_status = "completed") => JoinWait <= ActionTimeout

\* the dict worker i appends: what execute_task returned, with its action
ResultOfWorker(i) == [action |-> threads[i].action] @@ threads[i].result

(* C24: every entry of the results list of _execute_actions refers to an
   action dispatched in this call and is the result the worker of that action
   computed; no dispatched action has more than one entry; and the entries, as
   a set, are those of the workers that have finished, whatever the order in
   which they finished. *)
C24_ResultsReferToDispatched ==
    /\ \A k \in 1..Len(results) :
          \E i \in 1..Len(threads) :
             /\ threads[i].action = actions[i]
             /\ threads[i].pc = "finished"
             /\ results[k] = ResultOfWorker(i)
    /\ \A i \in 1..Len(actions) :
          Cardinality({k \in 1..Len(results) : results[k].action = actions[i]}) <= 1
    /\ {results[k] : k \in 1..Len(results)}
          = {ResultOfWorker(i) : i \in {j \in 1..Len(threads) :
                                            threads[j].pc = "finished"}}

\* two workers have finished in the reverse order of their dispatch, one
\* with a success and one with a failure
C24_Witness ==
    /\ Len(actions) = 2
    /\ Len(results) = 2
    /\ results[1].action = actions[2]
    /\ results[2].action = actions[1]
    /\ results[1].status # results[2].status

(* C25: the Snapshot _scan_github_state returns is the view of one state of
   the item store, one the store was in while the scan ran, also when workers
   that are still running change labels between the reads of the scan. *)
C25_SnapshotOfOneStoreState ==
    (pc = "decide" /\ scan.phase = "done") =>
        \E st \in scan.seen : state = ScanState(st)

\* the set of the items of a list
ItemsOf(s) == {s[i] : i \in 1..Len(s)}

(* C26: in every Snapshot the open and the processing collections are
   disjoint and together hold exactly the tasks of the store at or above the
   floor, each once for each time the store lists it; a task is in the
   processing collection iff it carries the processing marker; and no item is
   in more than one of the PRs, the tasks and the task-less epics. *)
C26_CollectionsPartitionTasks ==
    pc # "scan" =>
       LET tasks == state.open_items \o state.processing_items
       IN /\ BagOf(tasks)
               = BagOf(SelectSeq(store,
                    LAMBDA it : /\ IsTask(it)
                                /\ it.number >= IgnoreOldTasksBeforeNumber))
          /\ ItemsOf(state.open_items) \cap ItemsOf(state.processing_items) = {}
          /\ \A t \in ItemsOf(tasks) :
                t \in ItemsOf(state.processing_items) <=> "processing" \in t.labels
          /\ ItemsOf(state.prs) \cap ItemsOf(tasks) = {}
          /\ ItemsOf(state.prs) \cap ItemsOf(state.epics) = {}
          /\ ItemsOf(tasks) \cap ItemsOf(state.epics) = {}

\* the Snapshot of a store that holds an open task, a task being processed
\* and an epic that also carries an agent label
C26_Witness ==
    /\ pc # "scan"
    /\ state.open_items # <<>>
    /\ state.processing_items # <<>>
    /\ \E k \in 1..Len(store) : /\ HasEpicLabel(store[k])
                                /\ store[k].labels \cap AgentLabels # {}

(* C27: when _decide_actions returns, the Dedup Tracker holds exactly the
   ActionKeys of the returned actions, on the policy path, on the fallback
   path and on the path where the policy fails and the fallback takes
   over. *)
C27_TrackerIsReturnedKeys ==
    Decided =>
        current_run_actions = {ActionKey(actions[i]) : i \in 1..Len(actions)}

\* the targets (type, repository, number) of the proposals of the oracle that
\* the Snapshot resolves
ResolvableKeys ==
    {<<Proposals[i].type, Proposals[i].repo, Proposals[i].number>> :
        i \in {j \in 1..Len(Proposals) : Resolvable(Proposals[j])}}

(* C28: on the policy path a proposal that is dropped (unresolvable, or a
   duplicate of an earlier one) uses up none of the budget: the returned list
   has min(K, number of distinct resolvable proposals) actions. *)
C28_DroppedProposalKeepsBudget ==
    (Decided /\ strategy = "policy") =>
        Len(actions) = IF Cardinality(ResolvableKeys) < max_parallel_actions
                       THEN Cardinality(ResolvableKeys)
                       ELSE max_parallel_actions

(* C29: whatever the Dedup Tracker holds when the deterministic fallback is
   entered, the fallback returns an action of a lower tier only if every
   Snapshot item of each higher tier is in its output or was claimed in the
   tracker on entry; the tracker at the return holds the keys claimed on entry
   and those of the output. *)
C29_NoUnclaimedHigherTierSkipped ==
    (Decided /\ strategy \in {"fallback", "policy_failed"}) =>
        \A i \in 1..Len(actions) : \A j \in 1..Len(ExpectedActions) :
            Rank(ExpectedActions[j].type) < Rank(actions[i].type)
                => ActionKey(ExpectedActions[j]) \in current_run_actions

(* C30: under the deterministic fallback, in every cycle whose Snapshot holds
   at least K open PRs (pairwise distinct), the actions selected are the
   review_pr actions of the first K PRs and nothing else, and every worker
   started is a review; so a PR that stays open among them is selected again
   in the next cycle, and no implement_task or decompose_epic action is
   dispatched meanwhile. *)
C30_OnlyReviewsWhileBudgetOfPrs ==
    (/\ pc \in {"execute", "done"}
     /\ strategy = "fallback"
     /\ Len(state.prs) >= max_parallel_actions
     /\ DistinctTargets(state.prs))
        => /\ Len(actions) = max_parallel_actions
           /\ \A i \in 1..Len(actions) :
                 /\ actions[i].type = "review_pr"
                 /\ actions[i].repo = state.prs[i].repo
                 /\ actions[i].number = state.prs[i].number
           /\ \A i \in 1..Len(threads) : threads[i].action.type = "review_pr"

\* a later cycle of the loop has selected, and started a worker for, the
\* review that the cycle before had selected
C30_Witness ==
    /\ loop.prev = "completed"
    /\ pc = "execute"
    /\ strategy = "fallback"
    /\ max_parallel_actions > 0
    /\ Len(state.prs) >= max_parallel_actions
    /\ Len(threads) = Len(actions)
    /\ \A i \in 1..Len(actions) : ActionKey(actions[i]) \in loop.prev_keys
    /\ \E i \in 1..Len(actions) : actions[i].type = "review_pr"

\* task it of the store is open: at or above the floor and not being processed
OpenInStore(it) ==
    /\ IsTask(it)
    /\ it.number >= IgnoreOldTasksBeforeNumber
    /\ "processing" \notin it.labels

(* C31: when every label call succeeds and only the hooks of its own worker
   edit the labels of a task: once an implement_task worker has finished with
   a success its task carries 'processing' and 'status:review-requested', and
   a task that carries 'status:review-requested' keeps 'processing', is in
   the open tasks of no Snapshot built from then on and so is selected for
   implement_task in no later cycle; once the worker has finished with
   a failure its task no longer carries 'processing'; and a task that is open
   in the store when a cycle scans it is in the open tasks of the Snapshot
   and, with a budget of at least one, is selected for implement_task. *)
C31_LabelsDecideReselection ==
    /\ \A i \in 1..Len(threads) :
          (threads[i].action.type = "implement_task" /\ threads[i].pc = "finished")
             => IF threads[i].result.status = "success"
                THEN {"processing", "status:review-requested"}
                        \subseteq TargetLabels(store, threads[i].action)
                ELSE "processing" \notin TargetLabels(store, threads[i].action)
    /\ \A k \in 1..Len(store) :
          (store[k].kind = "issue" /\ "status:review-requested" \in store[k].labels)
             => "processing" \in store[k].labels
    /\ \A t \in ItemsOf(state.open_items) :
          "status:review-requested" \notin t.labels
    /\ \A n \in 1..Len(actions) :
          actions[n].type = "implement_task"
             => \E t \in ItemsOf(state.open_items) :
                   t.repo = actions[n].repo /\ t.number = actions[n].number
    /\ \A k \in 1..Len(store) :
          (OpenInStore(store[k]) /\ threads = <<>>)
             => /\ pc \in {"decide", "execute"}
                      => store[k] \in ItemsOf(state.open_items)
                /\ (pc = "execute" /\ max_parallel_actions > 0)
                      => \E n \in 1..Len(actions) :
                            /\ actions[n].type = "implement_task"
                            /\ actions[n].repo = store[k].repo
                            /\ actions[n].number = store[k].number

\* a cycle of the loop has selected again the task whose implementation
\* failed in the cycle before, and this time its worker has finished with a
\* success and the task carries both labels
C31_Witness ==
    /\ loop.prev = "completed"
    /\ pc = "execute"
    /\ \E i \in 1..Len(threads) :
          /\ threads[i].action.type = "implement_task"
          /\ ActionKey(threads[i].action) \in loop.prev_keys
          /\ threads[i].pc = "finished"
          /\ threads[i].result.status = "success"
          /\ {"processing", "status:review-requested"}
                 \subseteq TargetLabels(store, threads[i].action)

====
